---- MODULE Spec2Model ----
(***************************************************************************)
(* K8s-Central (src/main.py): a FastAPI console over a JSON-file registry  *)
(* of clusters and services, a process-wide SSO session with a credential  *)
(* cache, a process-wide response cache and a credential scope             *)
(* (AWSContext) that rewrites os.environ around each cluster call.         *)
(*                                                                         *)
(* Scheduling.  The routes declared "async def" run on the event loop, one *)
(* at a time, and none of them awaits between its first read and its last  *)
(* write: each is one action.  The routes declared "def" (stats, status,  *)
(* describe, scan-namespace) run on worker threads of the thread pool;     *)
(* each is cut into steps at its blocking calls (file reads, the SSO       *)
(* exchange, the cluster call), where another thread or the event loop     *)
(* can run.                                                                *)
(***************************************************************************)
EXTENDS Integers, Sequences, FiniteSets, TLC

\* ---------------------------------------------------------------- bounds
NumThreads  == 2      \* worker threads serving the "def" routes
MaxTime     == 2      \* the clock runs 1..MaxTime
MaxClusters == 2      \* length of data["clusters"]
MaxServices == 2      \* length of data["services"]
MaxImport   == 1      \* deployments selected in one import-bulk form
MaxLogins   == 2      \* access tokens the identity provider hands out
CredTTL     == 1      \* lifetime the upstream gives a role credential
MaxSelected == 2      \* deployments selected in one form of SpecNames
MaxName     == 5      \* pieces in a deployment name given to guess_ui_name
MaxUsed     == 2      \* names in the existing_names given to guess_ui_name

Threads == 1..NumThreads

None   == "None"      \* Python's None
Absent == "Absent"    \* read from a file that does not exist

\* ------------------------------------------------------- input universes
Accounts == {"111", "222"}

\* add-cluster: the alias typed, and the kubeconfig uploaded with it.
Aliases == {"Prod", "prod", "Dev East"}

\* Aliases with an underscore in them or next to one in a cache key.
KeyAliases == {"a", "a_b"}

\* alias.lower().replace(" ", "-") on the aliases above (line 260).
ClusterIdOf(alias) ==
    CASE alias = "Prod"     -> "prod"
      [] alias = "prod"     -> "prod"
      [] alias = "Dev East" -> "dev-east"
      [] alias = "a"        -> "a"
      [] alias = "a_b"      -> "a_b"

ClusterIds == {ClusterIdOf(a) : a \in Aliases}

KeyClusterIds == {ClusterIdOf(a) : a \in KeyAliases}

\* A kubeconfig's content, as far as extract_account_id reads it: the
\* account of an EKS cluster ARN and the account of an IAM role ARN.
Kubeconfig(eks, role) == [eks |-> eks, role |-> role]

\* No file at a path.
NoFile == Kubeconfig(Absent, Absent)

\* The upload that goes with each alias: file name and content.
UploadOf(alias) ==
    CASE alias = "Prod"     -> [filename |-> "prod.yaml",
                                content  |-> Kubeconfig("111", "222")]
      [] alias = "prod"     -> [filename |-> "empty.yaml",
                                content  |-> Kubeconfig(None, None)]
      [] alias = "Dev East" -> [filename |-> "dev.yaml",
                                content  |-> Kubeconfig(None, "222")]
      [] alias = "a"        -> [filename |-> "a.yaml",
                                content  |-> Kubeconfig("111", "222")]
      [] alias = "a_b"      -> [filename |-> "a_b.yaml",
                                content  |-> Kubeconfig("222", None)]

Filenames == {UploadOf(a).filename : a \in Aliases \cup KeyAliases}

\* os.path.join(CONFIG_DIR, file.filename) (line 257).
ConfigPath(filename) == "configs/" \o filename

Paths == {ConfigPath(f) : f \in Filenames}

\* The access tokens the device-authorization poll (lines 319-327) hands
\* out, in the order it does; no two logins get the same one.
TokenNames == <<"tok1", "tok2", "tok3", "tok4">>
Tokens     == {TokenNames[i] : i \in 1..MaxLogins}
Regions     == {"us-east-1"}
RoleNames   == {"ReadOnly"}
Deployments == {"web-blue", "web-green"}
Namespaces  == {"ns1"}

\* What is typed in an import form's UI-name field, and its .strip()
\* (line 282).
UiInputs == {"web", " api ", "  "}

\* UI names with an underscore in them or next to one in a cache key.
KeyUiInputs == {"c", "b_c"}

Strip(raw) ==
    CASE raw = "web"   -> "web"
      [] raw = " api " -> "api"
      [] raw = "  "    -> ""
      [] raw = "c"     -> "c"
      [] raw = "b_c"   -> "b_c"

UiNames == {Strip(r) : r \in UiInputs} \ {""}

KeyUiNames == {Strip(r) : r \in KeyUiInputs}

\* ------------------------------------------------------------ dictionaries
EmptyDict == [k \in {} |-> None]

Put(d, k, v) == [x \in (DOMAIN d) \cup {k} |-> IF x = k THEN v ELSE d[x]]

Del(d, k) == [x \in (DOMAIN d) \ {k} |-> d[x]]

\* dict.get(k, default)
Get(d, k, default) == IF k \in DOMAIN d THEN d[k] ELSE default

\* d.update(e)
Update(d, e) == [x \in (DOMAIN d) \cup (DOMAIN e) |->
                    IF x \in DOMAIN e THEN e[x] ELSE d[x]]

\* ------------------------------------------------------------------ state
VARIABLES
    clusters,     \* data["clusters"] of data.json: a list of cluster records
    services,     \* data["services"] of data.json: a list of service records
    configs,      \* the files of CONFIG_DIR: path -> content, or NoFile
    CACHE,        \* the response cache: stats, statuses, timestamp
    SSO_SESSION,  \* access_token, region, role_name, cred_cache
    environ,      \* os.environ, the AWS_* variables of it
    now,          \* time.time()
    issued,       \* how many access tokens the identity provider has issued
    replaced,     \* history: the accounts whose unexpired cache entry the last
                  \* login discarded and that no resolve has looked up since
    req,          \* per worker thread: the request it serves and its locals
    guess         \* a call of guess_ui_name: its arguments and its result

vars == <<clusters, services, configs, CACHE, SSO_SESSION, environ, now,
          issued, replaced, req, guess>>

regVars == <<clusters, services, configs>>

\* ---------------------------------------------------------------- helpers
\* next((x for x in xs if P(x)), None): the first match of a list.
FirstIndex(xs, P(_)) ==
    IF \E i \in 1..Len(xs) : P(xs[i])
    THEN CHOOSE i \in 1..Len(xs) : P(xs[i]) /\ \A j \in 1..(i - 1) : ~P(xs[j])
    ELSE 0

\* [x for x in xs if P(x)]
Filter(xs, P(_)) == SelectSeq(xs, P)

\* None where a cluster record, a service record or a credential package
\* is expected.
NoCluster == [id |-> None, alias |-> None, config_path |-> None]
NoService == [ui_name |-> None, clusters |-> EmptyDict]
NoCreds   == [AccessKeyId |-> None, SecretAccessKey |-> None,
              SessionToken |-> None, Expiration |-> 0]

\* next((c for c in data["clusters"] if c["id"] == cluster_id), None)
FindCluster(cs, cluster_id) ==
    LET Is(c) == c.id = cluster_id
        i == FirstIndex(cs, Is)
    IN  IF i = 0 THEN NoCluster ELSE cs[i]

\* The index in data["services"] of
\* next((s for s in data["services"] if s['ui_name'] == ui_name), None);
\* 0 for None.
FindServiceIndex(ss, ui_name) ==
    LET Is(s) == s.ui_name = ui_name
    IN  FirstIndex(ss, Is)

FindService(ss, ui_name) ==
    LET i == FindServiceIndex(ss, ui_name)
    IN  IF i = 0 THEN NoService ELSE ss[i]

\* extract_account_id: the EKS cluster ARN's account first, then the IAM
\* role ARN's; None when the file cannot be opened or holds neither.
extract_account_id(files, config_path) ==
    LET content == files[config_path]
    IN  IF content = NoFile THEN None
        ELSE IF content.eks # None THEN content.eks
        ELSE IF content.role # None THEN content.role
        ELSE None

\* ------------------------------------------------------ rendered fragments
Fragment(kind, cluster_id, ui_name, details) ==
    [kind |-> kind, cluster_id |-> cluster_id, ui_name |-> ui_name,
     details |-> details]

NoDetails == [deployment |-> "", namespace |-> ""]

\* stats: the Online card (line 184), the Offline alert (line 187), and
\* "Config Missing" (line 177).
StatsOnline   == Fragment("Online", "", "", NoDetails)
StatsOffline  == Fragment("Offline", "", "", NoDetails)
ConfigMissing == Fragment("Config Missing", "", "", NoDetails)

\* status: the cell rendered from the deployment read (lines 204-208),
\* which carries the cluster, the service and the binding's namespace; the
\* Error badge (line 212); the "-" placeholder of an unmapped pair
\* (line 196).
StatusCell(cluster_id, ui_name, details) ==
    Fragment("Status", cluster_id, ui_name, details)
StatusError == Fragment("Error", "", "", NoDetails)
Unmapped    == Fragment("Unmapped", "", "", NoDetails)

\* describe: the modal (line 226) and the alert (line 227); scan: the
\* import form (line 244) and the alert (line 245).  Neither is cached, so
\* only the kind of the answer is kept.
DescribeModal == Fragment("Modal", "", "", NoDetails)
ScanForm      == Fragment("Form", "", "", NoDetails)
Alert         == Fragment("Alert", "", "", NoDetails)

\* An exception that leaves the route: the HTTP layer's 500.
Raised == Fragment("Exception", "", "", NoDetails)

NoFragment == Fragment("", "", "", NoDetails)

\* cache_key = f"{cluster_id}_{ui_name}" (lines 191, 300)
CacheKey(cluster_id, ui_name) == cluster_id \o "_" \o ui_name

\* ---------------------------------------------------- the worker's locals
\* A local is kept only while the code can still read it: account_id and
\* token until the exchange has returned, cluster_info and creds until the
\* cluster call has been made, the rest until the route returns.
Idle ==
    [pc |-> "idle", op |-> "", cluster_id |-> "", arg |-> "",
     cluster_info |-> NoCluster, details |-> NoDetails,
     old_env |-> EmptyDict, account_id |-> None, token |-> None,
     creds |-> NoCreds, ok |-> FALSE,
     resp |-> NoFragment, cached |-> FALSE]

\* ------------------------------------------------------- name suggestion
\* A name is the concatenation of a list of pieces.  No piece is a prefix
\* of another and "-" is a piece of its own, so str.startswith and the
\* regular expression of line 61 see on the pieces what they see on the
\* characters.
Variants == {"blue", "green", "canary", "prod", "dev", "staging"}
Digits   == {"0", "1", "2", "3", "4", "5", "6", "7", "8", "9"}

\* deployment_name.startswith(name)
StartsWith(d, name) ==
    Len(name) <= Len(d) /\ SubSeq(d, 1, Len(name)) = name

\* -(blue|green|canary|prod|dev|staging|v\d+)$ matches from piece i of d to
\* its end.
MatchAt(d, i) ==
    /\ d[i] = "-"
    /\ \/ Len(d) = i + 1 /\ d[i + 1] \in Variants
       \/ /\ Len(d) >= i + 2
          /\ d[i + 1] = "v"
          /\ \A j \in (i + 2)..Len(d) : d[j] \in Digits

\* A substitution that goes on while the rest still ends in a variant.
RECURSIVE StripVariant_all(_)
StripVariant_all(d) ==
    IF \E i \in 1..Len(d) : MatchAt(d, i)
    THEN StripVariant_all(SubSeq(d, 1,
             (CHOOSE i \in 1..Len(d) :
                 MatchAt(d, i) /\ \A j \in 1..(i - 1) : ~MatchAt(d, j)) - 1))
    ELSE d

\* re.sub(r'-(...)$', '', deployment_name): the leftmost match, which
\* reaches the end of the name, is cut off; without a match the name
\* comes back as it is (line 61).
StripVariant(d) ==
    IF \E i \in 1..Len(d) : MatchAt(d, i)
    THEN SubSeq(d, 1,
             (CHOOSE i \in 1..Len(d) :
                 MatchAt(d, i) /\ \A j \in 1..(i - 1) : ~MatchAt(d, j)) - 1)
    ELSE d

\* max(matches, key=len): the first of the longest.
Longest(xs) ==
    xs[CHOOSE i \in 1..Len(xs) :
          /\ \A j \in 1..Len(xs) : Len(xs[j]) <= Len(xs[i])
          /\ \A j \in 1..(i - 1) : Len(xs[j]) < Len(xs[i])]

\* guess_ui_name (lines 57-61)
guess_ui_name(deployment_name, existing_names) ==
    LET IsPrefix(name) == StartsWith(deployment_name, name)
        matches == SelectSeq(existing_names, IsPrefix)
    IN  IF \E i \in 1..Len(existing_names) :
               existing_names[i] = deployment_name
        THEN deployment_name
        ELSE IF matches # << >> THEN Longest(matches)
        ELSE StripVariant(deployment_name)

\* No call of guess_ui_name has been made.
NoGuess ==
    [deployment_name |-> << >>, existing_names |-> << >>,
     result |-> << >>, done |-> FALSE]

\* ------------------------------------------------------------------- Init
\* The process after start-up: an empty data file (lines 28-30), the two
\* global dictionaries (lines 33-44), and the thread pool at rest.
Start ==
    /\ clusters = << >>
    /\ services = << >>
    /\ configs = [p \in Paths |-> NoFile]
    /\ CACHE = [stats |-> EmptyDict, statuses |-> EmptyDict, timestamp |-> 0]
    /\ SSO_SESSION = [access_token |-> None, region |-> "us-east-1",
                      role_name |-> None, cred_cache |-> EmptyDict]
    /\ environ = [v \in {"AWS_PROFILE"} |-> "default"]
    /\ now = 1
    /\ issued = 0
    /\ replaced = {}
    /\ req = [t \in Threads |-> Idle]

Init ==
    /\ Start
    /\ guess = NoGuess

\* ------------------------------------------------- event-loop routes
\* POST /refresh-all (lines 247-252)
refresh_all ==
    /\ CACHE' = [stats |-> EmptyDict, statuses |-> EmptyDict,
                 timestamp |-> now]
    /\ UNCHANGED <<guess, regVars, SSO_SESSION, environ, now, issued,
                   replaced, req>>

\* POST /add-cluster (lines 254-262)
add_cluster(alias) ==
    LET up   == UploadOf(alias)
        path == ConfigPath(up.filename)
    IN  /\ Len(clusters) < MaxClusters
        /\ configs' = [configs EXCEPT ![path] = up.content]
        /\ clusters' = Append(clusters,
                              [id |-> ClusterIdOf(alias), alias |-> alias,
                               config_path |-> path])
        /\ UNCHANGED <<guess, services, CACHE, SSO_SESSION, environ, now,
                       issued, replaced, req>>

\* POST /delete-cluster (lines 264-274)
delete_cluster(cluster_id) ==
    LET cluster == FindCluster(clusters, cluster_id)
        Keep(c) == c.id # cluster_id
    IN  /\ configs' = IF cluster # NoCluster /\ configs[cluster.config_path] # NoFile
                      THEN [configs EXCEPT ![cluster.config_path] = NoFile]
                      ELSE configs
        /\ clusters' = Filter(clusters, Keep)
        /\ UNCHANGED <<guess, services, CACHE, SSO_SESSION, environ, now,
                       issued, replaced, req>>

\* A loop turn that appends a record whether or not the name is in use.
ImportOne_always_appends(ss, c_id, ns, d_name, raw) ==
    LET ui_name == Strip(raw)
        entry   == [deployment |-> d_name, namespace |-> ns]
    IN  IF ui_name = "" THEN ss
        ELSE Append(ss, [ui_name |-> ui_name,
                         clusters |-> Put(EmptyDict, c_id, entry)])

\* One turn of import-bulk's loop (lines 282-287) on data["services"].
ImportOne(ss, c_id, ns, d_name, raw) ==
    LET ui_name == Strip(raw)
        entry   == [deployment |-> d_name, namespace |-> ns]
        i       == FindServiceIndex(ss, ui_name)
    IN  IF ui_name = "" THEN ss
        ELSE IF i # 0
        THEN [ss EXCEPT ![i].clusters = Put(ss[i].clusters, c_id, entry)]
        ELSE Append(ss, [ui_name |-> ui_name,
                         clusters |-> Put(EmptyDict, c_id, entry)])

\* The loop over form.getlist("selected_deployments") (line 281).
RECURSIVE ImportAll(_, _, _, _, _)
ImportAll(ss, c_id, ns, selected, ui) ==
    IF selected = << >> THEN ss
    ELSE ImportAll(ImportOne(ss, c_id, ns, Head(selected), ui[Head(selected)]),
                   c_id, ns, Tail(selected), ui)

\* POST /import-bulk (lines 276-290)
import_bulk(c_id, ns, selected, ui) ==
    LET after == ImportAll(services, c_id, ns, selected, ui)
    IN  /\ Len(after) <= MaxServices
        /\ services' = after
        /\ CACHE' = [CACHE EXCEPT !.statuses = EmptyDict]
        /\ UNCHANGED <<guess, clusters, configs, SSO_SESSION, environ, now,
                       issued, replaced, req>>

\* An unmap that forgets line 298 and keeps a Service without bindings.
Unmap_keeps_empty(ss, cluster_id, ui_name) ==
    LET i == FindServiceIndex(ss, ui_name)
    IN  IF i # 0 /\ cluster_id \in DOMAIN ss[i].clusters
        THEN [ss EXCEPT ![i].clusters = Del(ss[i].clusters, cluster_id)]
        ELSE ss

\* data after unmap-service's lines 295-298.
Unmap(ss, cluster_id, ui_name) ==
    LET i == FindServiceIndex(ss, ui_name)
        Other(s) == s.ui_name # ui_name
    IN  IF i # 0 /\ cluster_id \in DOMAIN ss[i].clusters
        THEN LET removed == [ss EXCEPT ![i].clusters = Del(ss[i].clusters, cluster_id)]
             IN  IF DOMAIN removed[i].clusters = {}
                 THEN Filter(removed, Other)
                 ELSE removed
        ELSE ss

\* POST /unmap-service (lines 292-301)
unmap_service(cluster_id, ui_name) ==
    /\ services' = Unmap(services, cluster_id, ui_name)
    /\ CACHE' = [CACHE EXCEPT !.statuses = Del(CACHE.statuses,
                                               CacheKey(cluster_id, ui_name))]
    /\ UNCHANGED <<guess, clusters, configs, SSO_SESSION, environ, now,
                   issued, replaced, req>>

\* SSO_SESSION after final_login's four assignments (lines 354-357).
LoginSession(access_token, region, role_name) ==
    [access_token |-> access_token, region |-> region,
     role_name |-> role_name, cred_cache |-> EmptyDict]

\* POST /auth/sso/login (lines 352-358), with the access token the poll
\* handed out last.
final_login(access_token, region, role_name) ==
    /\ issued < MaxLogins
    /\ access_token = TokenNames[issued + 1]
    /\ issued' = issued + 1
    /\ SSO_SESSION' = LoginSession(access_token, region, role_name)
    /\ replaced' = {a \in DOMAIN SSO_SESSION.cred_cache :
                        SSO_SESSION.cred_cache[a].Expiration > now}
    /\ UNCHANGED <<guess, regVars, CACHE, environ, now, req>>

\* POST /auth/logout (lines 360-363)
logout ==
    /\ SSO_SESSION' = [SSO_SESSION EXCEPT !.access_token = None]
    /\ UNCHANGED <<guess, regVars, CACHE, environ, now, issued, replaced,
                   req>>

\* time.time() moves on.
Tick ==
    /\ now < MaxTime
    /\ now' = now + 1
    /\ UNCHANGED <<guess, regVars, CACHE, SSO_SESSION, environ,
                   issued, replaced, req>>

\* ------------------------------------------------- credentials and scope
\* The role credentials the upstream exchange returns for an account under
\* an access token (lines 96-104): three secrets that identify the account
\* and the token they were issued for, and the expiration instant.
RoleCredentials(account_id, access_token, at) ==
    [AccessKeyId     |-> "AKIA-" \o account_id \o "-" \o access_token,
     SecretAccessKey |-> "SECRET-" \o account_id \o "-" \o access_token,
     SessionToken    |-> "SESSION-" \o account_id \o "-" \o access_token,
     Expiration      |-> at + CredTTL]

\* AWSContext.__enter__ with credentials (lines 119-125).
Activate(env, creds, region) ==
    LET e1 == Put(Put(Put(env, "AWS_ACCESS_KEY_ID", creds.AccessKeyId),
                      "AWS_SECRET_ACCESS_KEY", creds.SecretAccessKey),
                  "AWS_SESSION_TOKEN", creds.SessionToken)
        e2 == IF region # ""
              THEN Put(Put(e1, "AWS_DEFAULT_REGION", region), "AWS_REGION", region)
              ELSE e1
    IN  Del(e2, "AWS_PROFILE")

\* AWSContext.__exit__ (lines 128-129): clear, then update from old_env.
Restore(env, old_env) == Update(EmptyDict, old_env)

\* ------------------------------------------------- worker-thread routes
Ops == {"stats", "status", "describe", "scan"}

\* The second path or query argument an operation takes.
ArgsOf(op) ==
    CASE op = "stats"    -> {""}
      [] op = "status"   -> UiNames
      [] op = "describe" -> UiNames
      [] op = "scan"     -> Namespaces

\* The thread is free again and its locals are gone; what it answered, and
\* whether that came from the response cache, stays readable.
Return(r, fragment, from_cache) ==
    [Idle EXCEPT !.resp = fragment, !.cached = from_cache]

\* The request arrives and the route looks into the response cache:
\* stats line 174, status lines 191-192; describe and scan have no cache.
Begin(t, op, cluster_id, arg) ==
    LET r0  == [Idle EXCEPT !.op = op, !.cluster_id = cluster_id, !.arg = arg]
        key == CacheKey(cluster_id, arg)
    IN  /\ req[t].pc = "idle"
        /\ req' = [req EXCEPT ![t] =
               IF op = "stats" /\ cluster_id \in DOMAIN CACHE.stats
               THEN Return(r0, CACHE.stats[cluster_id], TRUE)
               ELSE IF op = "status" /\ key \in DOMAIN CACHE.statuses
               THEN Return(r0, CACHE.statuses[key], TRUE)
               ELSE [r0 EXCEPT !.pc = "load"]]
        /\ UNCHANGED <<guess, regVars, CACHE, SSO_SESSION, environ, now,
                       issued, replaced>>

\* AWSContext.__init__ (line 114) and the first line of
\* get_cluster_credentials (line 81), which run with no blocking call
\* between them once load_db has returned.
EnterScope(r, cluster_info, details) ==
    [r EXCEPT !.cluster_info = cluster_info, !.details = details,
              !.old_env = environ,
              !.pc = IF SSO_SESSION.access_token = None THEN "call"
                     ELSE "resolve"]

\* load_db and what the route does with the registry before it enters the
\* credential scope: stats lines 175-180, status lines 193-200, describe
\* lines 216-221, scan lines 231-234.
Load(t) ==
    LET r            == req[t]
        cluster_info == FindCluster(clusters, r.cluster_id)
        svc          == FindService(services, r.arg)
        bound        == svc # NoService /\ r.cluster_id \in DOMAIN svc.clusters
    IN  /\ r.pc = "load"
        /\ req' = [req EXCEPT ![t] =
               CASE r.op = "stats" ->
                        IF cluster_info = NoCluster
                        THEN Return(r, ConfigMissing, FALSE)
                        ELSE EnterScope(r, cluster_info, NoDetails)
                 [] r.op = "status" ->
                        IF ~bound
                        THEN Return(r, Unmapped, FALSE)
                        ELSE EnterScope(r, cluster_info, svc.clusters[r.cluster_id])
                 [] r.op = "describe" ->
                        IF ~bound
                        THEN Return(r, Raised, FALSE)
                        ELSE EnterScope(r, cluster_info, svc.clusters[r.cluster_id])
                 [] r.op = "scan" ->
                        EnterScope(r, cluster_info, NoDetails)]
        /\ UNCHANGED <<guess, regVars, CACHE, SSO_SESSION, environ, now,
                       issued, replaced>>

\* An entry honoured from the instant it expires on: >= for line 91's >.
Unexpired_at_expiry(cached, time) ==
    cached # NoCreds /\ cached.Expiration >= time

\* cached and cached['Expiration'].timestamp() > time.time() (line 91)
Unexpired(cached, time) ==
    cached # NoCreds /\ cached.Expiration > time

\* get_cluster_credentials from its load_db to the exchange call (lines
\* 83-97), then __enter__'s activation when it returned without one.
Resolve(t) ==
    LET r          == req[t]
        cluster    == FindCluster(clusters, r.cluster_id)
        account_id == IF cluster = NoCluster THEN None
                      ELSE extract_account_id(configs, cluster.config_path)
        cached     == IF account_id = None THEN NoCreds
                      ELSE Get(SSO_SESSION.cred_cache, account_id, NoCreds)
    IN  /\ r.pc = "resolve"
        /\ IF account_id = None
           THEN /\ req' = [req EXCEPT ![t].pc = "call"]
                /\ UNCHANGED environ
           ELSE IF Unexpired(cached, now)
           THEN /\ req' = [req EXCEPT ![t].pc = "call", ![t].creds = cached]
                /\ environ' = Activate(environ, cached, SSO_SESSION.region)
           ELSE /\ req' = [req EXCEPT ![t].pc = "exchange",
                                      ![t].account_id = account_id,
                                      ![t].token = SSO_SESSION.access_token]
                /\ UNCHANGED environ
        /\ replaced' = replaced \ {account_id}
        /\ UNCHANGED <<guess, regVars, CACHE, SSO_SESSION, now, issued>>

\* A refresh that evicts the account's entry when the exchange fails.
StoreCredentials_evicts(cache, account_id, pkg, succeeded) ==
    IF succeeded THEN Put(cache, account_id, pkg) ELSE Del(cache, account_id)

\* SSO_SESSION["cred_cache"] once the exchange has returned (line 105) or
\* raised (lines 107-109).
StoreCredentials(cache, account_id, pkg, succeeded) ==
    IF succeeded THEN Put(cache, account_id, pkg) ELSE cache

\* sso.get_role_credentials returns or raises (lines 96-109), then
\* __enter__'s activation.  A call without a token cannot succeed.  After
\* a failure the account asked for stays readable until the cluster call.
Exchange(t, succeeded) ==
    LET r   == req[t]
        pkg == RoleCredentials(r.account_id, r.token, now)
        ok  == succeeded /\ r.token # None
    IN  /\ r.pc = "exchange"
        /\ SSO_SESSION' = [SSO_SESSION EXCEPT !.cred_cache =
                 StoreCredentials(SSO_SESSION.cred_cache, r.account_id, pkg, ok)]
        /\ IF ok
           THEN /\ environ' = Activate(environ, pkg, SSO_SESSION.region)
                /\ req' = [req EXCEPT ![t].pc = "call", ![t].creds = pkg,
                                      ![t].account_id = None, ![t].token = None]
           ELSE /\ req' = [req EXCEPT ![t].pc = "call", ![t].token = None]
                /\ UNCHANGED environ
        /\ UNCHANGED <<guess, regVars, CACHE, now, issued, replaced>>

\* The cluster call inside the scope can only succeed with a cluster record
\* whose kubeconfig is on disk.
CanReach(r) ==
    /\ r.cluster_info # NoCluster
    /\ configs[r.cluster_info.config_path] # NoFile

\* The cluster call inside the scope (stats 181-183, status 201-202,
\* describe 222-225, scan 235-236): the client reads the ambient
\* credentials from os.environ as it stands now, and the call returns or
\* raises.
Call(t, succeeded) ==
    LET r == req[t]
    IN  /\ r.pc = "call"
        /\ req' = [req EXCEPT ![t].pc = "exit",
                              ![t].ok = succeeded /\ CanReach(r),
                              ![t].cluster_info = NoCluster,
                              ![t].creds = NoCreds,
                              ![t].account_id = None]
        /\ UNCHANGED <<guess, regVars, CACHE, SSO_SESSION, environ, now,
                       issued, replaced>>

\* What the route answers once the scope is left.
Answer(r) ==
    CASE r.op = "stats"    -> IF r.ok THEN StatsOnline ELSE StatsOffline
      [] r.op = "status"   -> IF r.ok
                              THEN StatusCell(r.cluster_id, r.arg, r.details)
                              ELSE StatusError
      [] r.op = "describe" -> IF r.ok THEN DescribeModal ELSE Alert
      [] r.op = "scan"     -> IF r.ok THEN ScanForm ELSE Alert

\* A status route that forgets line 209 and never writes its cell.
Store_skips_status(cache, r) ==
    IF r.ok /\ r.op = "stats"
    THEN [cache EXCEPT !.stats = Put(cache.stats, r.cluster_id, Answer(r))]
    ELSE cache

\* A route that also writes its except path's fragment to the cache.
Store_caches_failures(cache, r) ==
    IF r.op = "stats"
    THEN [cache EXCEPT !.stats = Put(cache.stats, r.cluster_id, Answer(r))]
    ELSE IF r.op = "status"
    THEN [cache EXCEPT !.statuses =
             Put(cache.statuses, CacheKey(r.cluster_id, r.arg), Answer(r))]
    ELSE cache

\* The response cache after the route's write: stats line 185, status line
\* 209; nothing on the except paths (lines 187, 212), nothing for describe
\* and scan.
Store(cache, r) ==
    IF r.ok /\ r.op = "stats"
    THEN [cache EXCEPT !.stats = Put(cache.stats, r.cluster_id, Answer(r))]
    ELSE IF r.ok /\ r.op = "status"
    THEN [cache EXCEPT !.statuses =
             Put(cache.statuses, CacheKey(r.cluster_id, r.arg), Answer(r))]
    ELSE cache

\* AWSContext.__exit__ (lines 128-129), then the route's rendering, cache
\* write and return.
Exit(t) ==
    LET r == req[t]
    IN  /\ r.pc = "exit"
        /\ environ' = Restore(environ, r.old_env)
        /\ CACHE' = Store(CACHE, r)
        /\ req' = [req EXCEPT ![t] = Return(r, Answer(r), FALSE)]
        /\ UNCHANGED <<guess, regVars, SSO_SESSION, now, issued, replaced>>

\* ------------------------------------------------------------ the program
SeqsUpTo(S, n) == UNION {[1..k -> S] : k \in 0..n}

Range(xs) == {xs[i] : i \in 1..Len(xs)}

Next ==
    \/ refresh_all
    \/ \E alias \in Aliases : add_cluster(alias)
    \/ \E cluster_id \in ClusterIds : delete_cluster(cluster_id)
    \/ \E c_id \in ClusterIds, ns \in Namespaces,
          selected \in SeqsUpTo(Deployments, MaxImport) :
          \E ui \in [Range(selected) -> UiInputs] :
            import_bulk(c_id, ns, selected, ui)
    \/ \E cluster_id \in ClusterIds, ui_name \in UiNames :
            unmap_service(cluster_id, ui_name)
    \/ \E access_token \in Tokens, region \in Regions, role_name \in RoleNames :
            final_login(access_token, region, role_name)
    \/ logout
    \/ Tick
    \/ \E t \in Threads, op \in Ops, cluster_id \in ClusterIds :
          \E arg \in ArgsOf(op) : Begin(t, op, cluster_id, arg)
    \/ \E t \in Threads : Load(t)
    \/ \E t \in Threads : Resolve(t)
    \/ \E t \in Threads, succeeded \in BOOLEAN : Exchange(t, succeeded)
    \/ \E t \in Threads, succeeded \in BOOLEAN : Call(t, succeeded)
    \/ \E t \in Threads : Exit(t)

Spec == Init /\ [][Next]_vars

\* The session, the credential cache and the credential scope: clusters are
\* added, users log in and out, the clock moves, and the worker threads
\* serve the routes that need no service record.  The two aliases give two
\* cluster ids in two accounts.
CredOps     == {"scan"}
CredAliases == {"Prod", "Dev East"}

NextCred ==
    \/ \E alias \in CredAliases : add_cluster(alias)
    \/ \E access_token \in Tokens, region \in Regions, role_name \in RoleNames :
            final_login(access_token, region, role_name)
    \/ logout
    \/ Tick
    \/ \E t \in Threads, op \in CredOps, cluster_id \in ClusterIds :
          \E arg \in ArgsOf(op) : Begin(t, op, cluster_id, arg)
    \/ \E t \in Threads : Load(t)
    \/ \E t \in Threads : Resolve(t)
    \/ \E t \in Threads, succeeded \in BOOLEAN : Exchange(t, succeeded)
    \/ \E t \in Threads, succeeded \in BOOLEAN : Call(t, succeeded)
    \/ \E t \in Threads : Exit(t)

SpecCred == Init /\ [][NextCred]_vars

\* The registry and the response cache: every registry route, refresh-all,
\* and one worker thread's reads of the two cached routes, with nobody
\* logged in.
RegThreads     == {1}
RegAliases     == {"Prod", "Dev East"}
RegDeployments == {"web-blue"}
RegOps         == {"stats", "status"}

NextReg ==
    \/ refresh_all
    \/ \E alias \in RegAliases : add_cluster(alias)
    \/ \E cluster_id \in ClusterIds : delete_cluster(cluster_id)
    \/ \E c_id \in ClusterIds, ns \in Namespaces,
          selected \in SeqsUpTo(RegDeployments, MaxImport) :
          \E ui \in [Range(selected) -> UiInputs] :
            import_bulk(c_id, ns, selected, ui)
    \/ \E cluster_id \in ClusterIds, ui_name \in UiNames :
            unmap_service(cluster_id, ui_name)
    \/ \E t \in RegThreads, op \in RegOps, cluster_id \in ClusterIds :
          \E arg \in ArgsOf(op) : Begin(t, op, cluster_id, arg)
    \/ \E t \in RegThreads : Load(t)
    \/ \E t \in RegThreads, succeeded \in BOOLEAN : Call(t, succeeded)
    \/ \E t \in RegThreads : Exit(t)

SpecReg == Init /\ [][NextReg]_vars

\* The registry and the four probe routes: the registry routes, and one
\* worker thread serving stats, status, describe and scan-namespace, with
\* nobody logged in.
NextProbe ==
    \/ \E alias \in RegAliases : add_cluster(alias)
    \/ \E cluster_id \in ClusterIds : delete_cluster(cluster_id)
    \/ \E c_id \in ClusterIds, ns \in Namespaces,
          selected \in SeqsUpTo(RegDeployments, MaxImport) :
          \E ui \in [Range(selected) -> UiInputs] :
            import_bulk(c_id, ns, selected, ui)
    \/ \E cluster_id \in ClusterIds, ui_name \in UiNames :
            unmap_service(cluster_id, ui_name)
    \/ \E t \in RegThreads, op \in Ops, cluster_id \in ClusterIds :
          \E arg \in ArgsOf(op) : Begin(t, op, cluster_id, arg)
    \/ \E t \in RegThreads : Load(t)
    \/ \E t \in RegThreads, succeeded \in BOOLEAN : Call(t, succeeded)
    \/ \E t \in RegThreads : Exit(t)

SpecProbe == Init /\ [][NextProbe]_vars

\* The registry alone: the four registry routes, with import forms that
\* select up to MaxSelected deployments and may give them the same name.
NextNames ==
    \/ \E alias \in RegAliases : add_cluster(alias)
    \/ \E cluster_id \in ClusterIds : delete_cluster(cluster_id)
    \/ \E c_id \in ClusterIds, ns \in Namespaces,
          selected \in SeqsUpTo(Deployments, MaxSelected) :
          \E ui \in [Range(selected) -> UiInputs] :
            import_bulk(c_id, ns, selected, ui)
    \/ \E cluster_id \in ClusterIds, ui_name \in UiNames :
            unmap_service(cluster_id, ui_name)

SpecNames == Init /\ [][NextNames]_vars

\* guess_ui_name alone: every deployment name of up to MaxName pieces,
\* with every list of up to MaxUsed names in use.
Pieces    == {"web", "-", "blue", "v", "1"}
UsedNames == {<<"web">>, <<"web", "-", "blue">>, <<"v">>}

InitGuess ==
    /\ Start
    /\ guess \in [deployment_name : SeqsUpTo(Pieces, MaxName),
                   existing_names  : SeqsUpTo(UsedNames, MaxUsed),
                   result : {<< >>}, done : {FALSE}]

\* suggested = guess_ui_name(d_name, existing) (line 242)
Suggest ==
    /\ ~guess.done
    /\ guess' = [guess EXCEPT
                    !.result = guess_ui_name(guess.deployment_name,
                                             guess.existing_names),
                    !.done = TRUE]
    /\ UNCHANGED <<regVars, CACHE, SSO_SESSION, environ, now, issued,
                   replaced, req>>

NextGuess == Suggest

SpecGuess == InitGuess /\ [][NextGuess]_vars

\* The status cache's keys: clusters and services whose identifiers and
\* names carry an underscore, one worker thread's status reads, and the
\* registry routes that write or pop a key.
NextKey ==
    \/ \E alias \in KeyAliases : add_cluster(alias)
    \/ \E c_id \in KeyClusterIds, ns \in Namespaces,
          selected \in SeqsUpTo(RegDeployments, MaxImport) :
          \E ui \in [Range(selected) -> KeyUiInputs] :
            import_bulk(c_id, ns, selected, ui)
    \/ \E cluster_id \in KeyClusterIds, ui_name \in KeyUiNames :
            unmap_service(cluster_id, ui_name)
    \/ \E t \in RegThreads, cluster_id \in KeyClusterIds,
          ui_name \in KeyUiNames : Begin(t, "status", cluster_id, ui_name)
    \/ \E t \in RegThreads : Load(t)
    \/ \E t \in RegThreads, succeeded \in BOOLEAN : Call(t, succeeded)
    \/ \E t \in RegThreads : Exit(t)

SpecKey == Init /\ [][NextKey]_vars

\* ================================================================ claims
\* Steps of a worker thread, as seen between two states.
Called(t)    == req[t].pc = "call" /\ req'[t].pc = "exit"
Exited(t)    == req[t].pc = "exit" /\ req'[t].pc = "idle"
Hit(t)       == req[t].pc = "resolve" /\ req'[t].creds # NoCreds
Exchanged(t) == req[t].pc = "exchange" /\ req'[t].pc # "exchange"
Stored(t)    == Exchanged(t) /\ req'[t].creds # NoCreds
Activated(t) == Hit(t) \/ Stored(t)

\* The three credential variables of an environment.
Ambient(env) ==
    [AccessKeyId     |-> Get(env, "AWS_ACCESS_KEY_ID", None),
     SecretAccessKey |-> Get(env, "AWS_SECRET_ACCESS_KEY", None),
     SessionToken    |-> Get(env, "AWS_SESSION_TOKEN", None)]

Secrets(creds) ==
    [AccessKeyId     |-> creds.AccessKeyId,
     SecretAccessKey |-> creds.SecretAccessKey,
     SessionToken    |-> creds.SessionToken]

\* The credentials are the ones the upstream issues under this token.
IssuedUnder(creds, access_token) ==
    /\ access_token # None
    /\ \E a \in Accounts :
          creds = RoleCredentials(a, access_token, creds.Expiration - CredTTL)

\* The account get_cluster_credentials resolves for a cluster id.
AccountOf(cluster_id) ==
    LET cluster == FindCluster(clusters, cluster_id)
    IN  IF cluster = NoCluster THEN None
        ELSE extract_account_id(configs, cluster.config_path)

\* ---------------------------------------------------------------- C1
\* No other request in flight targets the cluster of thread t's request.
OtherClusters(t) ==
    \A u \in Threads \ {t} :
        req[u].pc # "idle" => req[u].cluster_id # req[t].cluster_id

\* C1: while operations on different clusters are in flight, the cluster
\* call made inside the scope for a cluster (a registered one, whose
\* kubeconfig the client can load) observes the ambient credentials its own
\* scope activated, or, when the scope has no credentials, the ambient
\* state the scope found; never what another in-flight scope has put there.
C1_Isolation ==
    [][\A t \in Threads :
          (Called(t) /\ CanReach(req[t]) /\ OtherClusters(t)) =>
              IF req[t].creds # NoCreds
              THEN Ambient(environ) = Secrets(req[t].creds)
              ELSE environ = req[t].old_env]_vars

\* ---------------------------------------------------------------- C2
\* C2: when a scope exits, os.environ is exactly what it was immediately
\* before the scope activated its credentials.  The scope puts back
\* old_env, its copy from __init__; so the claim says that old_env is what
\* comes back at exit and that old_env still was the ambient state at the
\* moment of activation.
C2_ScopeRestores ==
    [][\A t \in Threads :
          /\ Activated(t) => environ = req[t].old_env
          /\ Exited(t)    => environ' = req[t].old_env]_vars

\* ---------------------------------------------------------------- C3
\* What the stats fragment of a cluster, and the status fragment of a
\* (cluster, service) pair, are rendered from.
StatsSource(cs, c) == FindCluster(cs, c)

StatusSource(cs, ss, c, s) ==
    LET svc == FindService(ss, s)
    IN  <<FindCluster(cs, c), Get(svc.clusters, c, NoDetails)>>

\* C3: every mutation that changes what a cached fragment is rendered from
\* has removed that cache key when it returns; delete-cluster(c) removes
\* the stats entry of c.
C3_MutationsInvalidate ==
    [][/\ \A c \in DOMAIN CACHE'.stats :
              StatsSource(clusters', c) = StatsSource(clusters, c)
       /\ \A c \in ClusterIds, s \in UiNames :
              CacheKey(c, s) \in DOMAIN CACHE'.statuses =>
                  StatusSource(clusters', services', c, s)
                      = StatusSource(clusters, services, c, s)]_vars

\* ---------------------------------------------------------------- C4
\* C4: resolve returns a cached entry only if it has not expired and was
\* obtained with the active Session's access token, and an exchange stores
\* its credentials only into the cache of the Session whose token obtained
\* them.
C4_SessionIsolation ==
    [][\A t \in Threads :
          /\ Hit(t) => /\ req'[t].creds.Expiration > now
                       /\ IssuedUnder(req'[t].creds, SSO_SESSION.access_token)
          /\ Stored(t) => IssuedUnder(req'[t].creds, SSO_SESSION.access_token)]_vars

\* ---------------------------------------------------------------- C5
\* C5: every cluster id that keys a binding of a persisted Service is the
\* id of a cluster in the registry.
C5_BindingsReferClusters ==
    \A i \in 1..Len(services) :
        \A c \in DOMAIN services[i].clusters :
            FindCluster(clusters, c) # NoCluster

\* ---------------------------------------------------------------- C6
\* data["services"] after the cascade the claim describes: the binding for
\* the cluster is gone from every Service, and a Service left without a
\* binding is gone.
Cascade(ss, cluster_id) ==
    LET unbound == [i \in 1..Len(ss) |->
                       [ss[i] EXCEPT !.clusters = Del(ss[i].clusters, cluster_id)]]
        Bound(s) == DOMAIN s.clusters # {}
    IN  SelectSeq(unbound, Bound)

\* C6: delete-cluster(c) removes the binding for c from every Service,
\* removes a Service whose only binding was c, and leaves the other
\* bindings as they are.
C6_DeleteCascades ==
    [][\A c \in ClusterIds :
          (FindCluster(clusters, c) # NoCluster
              /\ FindCluster(clusters', c) = NoCluster)
          => services' = Cascade(services, c)]_vars

\* ---------------------------------------------------------------- C7
\* C7: a login leaves the credential cache empty, and the next resolve for
\* an account that had an unexpired entry in the cache the login replaced
\* goes to the upstream exchange instead of returning a cached entry.
C7_LoginClearsCache ==
    [][/\ issued' # issued => SSO_SESSION'.cred_cache = EmptyDict
       /\ \A t \in Threads :
             (/\ req[t].pc = "resolve" /\ req'[t].pc # "resolve"
              /\ AccountOf(req[t].cluster_id) \in replaced)
             => req'[t].pc = "exchange"]_vars

\* ---------------------------------------------------------------- C8
\* C8: with a Session active and the account resolvable, resolve goes to
\* the exchange exactly when the cache has no entry for the account that
\* expires after now; on a hit it returns the entry and leaves the cache
\* alone; the exchange is made once, and when it succeeds its credentials
\* are the cache's entry for the account and what resolve returns.
C8_ExchangeOnlyWhenStale ==
    [][\A t \in Threads :
          LET account_id == AccountOf(req[t].cluster_id)
              cache      == SSO_SESSION.cred_cache
              fresh      == /\ account_id \in DOMAIN cache
                            /\ cache[account_id].Expiration > now
          IN  /\ (/\ req[t].pc = "resolve" /\ req'[t].pc # "resolve"
                  /\ SSO_SESSION.access_token # None
                  /\ account_id # None)
                 => /\ req'[t].pc = "exchange" <=> ~fresh
                    /\ fresh => /\ req'[t].creds = cache[account_id]
                                /\ SSO_SESSION' = SSO_SESSION
              /\ req'[t].pc = "exchange" => req[t].pc \in {"resolve", "exchange"}
              /\ Exchanged(t) => req'[t].pc = "call"
              /\ Stored(t) =>
                    /\ req'[t].creds
                         = RoleCredentials(req[t].account_id, req[t].token, now)
                    /\ SSO_SESSION'.cred_cache
                         = Put(cache, req[t].account_id, req'[t].creds)]_vars

\* A resolve has gone to the exchange for an account whose cache entry has
\* expired.
C8_Witness ==
    \E t \in Threads :
        /\ req[t].pc = "exchange"
        /\ req[t].account_id \in DOMAIN SSO_SESSION.cred_cache
        /\ SSO_SESSION.cred_cache[req[t].account_id].Expiration <= now

\* ---------------------------------------------------------------- C9
\* C9: once logged out (no access token), the role name is absent and the
\* credential cache holds no entry.
C9_LogoutClears ==
    SSO_SESSION.access_token = None =>
        /\ SSO_SESSION.role_name = None
        /\ SSO_SESSION.cred_cache = EmptyDict

\* ---------------------------------------------------------------- C10
\* The cache key of the request a thread serves, and the cache's entry
\* under it.
Cached(cache, r) ==
    IF r.op = "stats" THEN Get(cache.stats, r.cluster_id, NoFragment)
    ELSE Get(cache.statuses, CacheKey(r.cluster_id, r.arg), NoFragment)

\* A stats or status request whose probe failed returns.
FailedProbe(t) ==
    /\ Exited(t)
    /\ req[t].op \in {"stats", "status"}
    /\ ~req[t].ok

BoundOn(ss, cluster_id, ui_name) ==
    LET svc == FindService(ss, ui_name)
    IN  svc # NoService /\ cluster_id \in DOMAIN svc.clusters

\* C11: a status request for a pair the registry holds no binding for is
\* answered with the unmapped placeholder: it is not answered from the
\* response cache when it arrives, and when it has loaded the registry it
\* returns the placeholder.
C11_UnmappedPlaceholder ==
    [][\A t \in Threads :
          /\ \A c \in ClusterIds, s \in UiNames :
                (Begin(t, "status", c, s) /\ ~BoundOn(services, c, s))
                => req'[t].pc = "load"
          /\ (/\ req[t].pc = "load" /\ req'[t].pc # "load"
              /\ req[t].op = "status"
              /\ ~BoundOn(services, req[t].cluster_id, req[t].arg))
             => (req'[t].pc = "idle" /\ req'[t].resp = Unmapped)]_vars

\* ---------------------------------------------------------------- C12
\* C12: whatever the registry holds and whatever pair is asked for, a probe
\* route answers with a rendered fragment; no exception leaves the route.
C12_NoRawException ==
    \A t \in Threads : req[t].resp # Raised

\* ---------------------------------------------------------------- C13
\* C13: when the exchange raises, resolve returns None without raising (the
\* scope goes on to its cluster call with no credentials and activates
\* nothing), and the credential cache is exactly as it was.
C13_FailedExchangeKeepsCache ==
    [][\A t \in Threads :
          (Exchanged(t) /\ req'[t].creds = NoCreds)
          => /\ req'[t].pc = "call"
             /\ SSO_SESSION' = SSO_SESSION
             /\ environ' = environ]_vars

\* An exchange for an account has failed under an active Session, and the
\* account's expired entry is still in the credential cache.  No other
\* thread has served a request, so the entry was there before the exchange.
C13_Witness ==
    \E t \in Threads :
        /\ \A u \in Threads \ {t} : req[u] = Idle
        /\ req[t].pc = "call"
        /\ req[t].creds = NoCreds
        /\ req[t].account_id \in DOMAIN SSO_SESSION.cred_cache
        /\ SSO_SESSION.cred_cache[req[t].account_id].Expiration <= now
        /\ SSO_SESSION.access_token # None

\* ---------------------------------------------------------------- C14
\* No two records of data["services"] have the same ui_name.
UniqueNames(ss) ==
    \A i, j \in 1..Len(ss) : ss[i].ui_name = ss[j].ui_name => i = j

\* C14: no two persisted Service records have the same ui_name, and an
\* import keeps every existing record in its place under its name, with
\* its bindings on the other clusters as they were: a name in use gets a
\* binding in its record, not a second record.
C14_NamesUnique ==
    [][/\ UniqueNames(services')
       /\ \A c_id \in ClusterIds, ns \in Namespaces,
             selected \in SeqsUpTo(Deployments, MaxSelected) :
             \A ui \in [Range(selected) -> UiInputs] :
                import_bulk(c_id, ns, selected, ui) =>
                   /\ Len(services') >= Len(services)
                   /\ \A i \in 1..Len(services) :
                         /\ services'[i].ui_name = services[i].ui_name
                         /\ \A k \in DOMAIN services[i].clusters \ {c_id} :
                               /\ k \in DOMAIN services'[i].clusters
                               /\ services'[i].clusters[k]
                                     = services[i].clusters[k]]_vars

\* Imports on two clusters have used the name "web": one Service record
\* holds both bindings.
C14_Witness ==
    /\ Len(services) = 1
    /\ services[1].ui_name = "web"
    /\ DOMAIN services[1].clusters = {"prod", "dev-east"}
    /\ services[1].clusters["prod"].deployment = "web-blue"
    /\ services[1].clusters["dev-east"].deployment = "web-green"

\* ---------------------------------------------------------------- C15
\* C15: no persisted Service has an empty binding map, and unmapping the
\* last binding of a Service removes its record.
C15_NoEmptyService ==
    [][/\ \A i \in 1..Len(services') : DOMAIN services'[i].clusters # {}
       /\ services' # services =>
             \A i \in 1..Len(services) :
                LET s == services[i].ui_name
                IN  (\E c \in ClusterIds :
                        /\ DOMAIN services[i].clusters = {c}
                        /\ ~BoundOn(services', c, s))
                    => FindService(services', s) = NoService]_vars

\* A status read rendered a cell for a binding, and the registry holds no
\* Service any more: the last binding has been unmapped and its record
\* went with it.
C15_Witness ==
    /\ services = << >>
    /\ \E t \in Threads :
          req[t].pc = "idle" /\ req[t].resp.kind = "Status"

\* ---------------------------------------------------------------- C16
\* A request arrives at an idle worker thread.
Arrives(t) == req[t].pc = "idle" /\ req'[t] # req[t]

\* C16: the fragment a successful stats or status probe returns is in the
\* cache under the request's key; a read whose key is in the cache returns
\* that fragment without probing, and one whose key is not goes on to
\* probe; unmap-service(c, s) leaves no entry under the key of (c, s) (a
\* step that leaves one is not that unmap); refresh-all leaves both
\* namespaces empty and the timestamp at the current time.
C16_CacheRoundTrip ==
    [][/\ \A t \in Threads :
             /\ (Exited(t) /\ req[t].ok /\ req[t].op \in {"stats", "status"})
                => Cached(CACHE', req[t]) = req'[t].resp
             /\ Arrives(t) =>
                   /\ \A c \in ClusterIds :
                         Begin(t, "stats", c, "") =>
                            IF c \in DOMAIN CACHE.stats
                            THEN req'[t] = Return(Idle, CACHE.stats[c], TRUE)
                            ELSE req'[t].pc = "load"
                   /\ \A c \in ClusterIds, s \in UiNames :
                         Begin(t, "status", c, s) =>
                            IF CacheKey(c, s) \in DOMAIN CACHE.statuses
                            THEN req'[t] = Return(Idle, CACHE.statuses[CacheKey(c, s)], TRUE)
                            ELSE req'[t].pc = "load"
       /\ (req' = req /\ clusters' = clusters) =>
             /\ \A c \in ClusterIds, s \in UiNames :
                   (CacheKey(c, s) \in DOMAIN CACHE'.statuses)
                   => ~unmap_service(c, s)
             /\ refresh_all =>
                   /\ CACHE'.stats = EmptyDict
                   /\ CACHE'.statuses = EmptyDict
                   /\ CACHE'.timestamp = now]_vars

\* A status read has just been answered from the cache with the cell a
\* successful probe stored under its key.
C16_Witness ==
    \E t \in Threads :
        /\ req[t].pc = "idle"
        /\ req[t].cached
        /\ req[t].resp.kind = "Status"
        /\ LET key == CacheKey(req[t].resp.cluster_id, req[t].resp.ui_name)
           IN  /\ key \in DOMAIN CACHE.statuses
               /\ CACHE.statuses[key] = req[t].resp

\* ---------------------------------------------------------------- C17
\* x is one of the suffixes -blue, -green, -canary, -prod, -dev, -staging,
\* -v<digits>.
IsVariantSuffix(x) ==
    /\ Len(x) >= 2
    /\ x[1] = "-"
    /\ \/ Len(x) = 2 /\ x[2] \in Variants
       \/ Len(x) >= 3 /\ x[2] = "v" /\ \A j \in 3..Len(x) : x[j] \in Digits

\* C17: the suggestion for a deployment name d and the names in use U is
\* d when d is in use; otherwise the longest name in use that is a prefix
\* of d, when there is one; otherwise d without its trailing variant
\* suffix, cut once, when it ends in one; otherwise d.
C17_SuggestionRules ==
    guess.done =>
        LET d        == guess.deployment_name
            U        == Range(guess.existing_names)
            r        == guess.result
            prefixes == {u \in U : StartsWith(d, u)}
            cuts     == {k \in 1..Len(d) :
                            IsVariantSuffix(SubSeq(d, k, Len(d)))}
        IN  IF d \in U THEN r = d
            ELSE IF prefixes # {}
            THEN r \in prefixes /\ \A u \in prefixes : Len(u) <= Len(r)
            ELSE IF cuts # {}
            THEN \E k \in cuts : r = SubSeq(d, 1, k - 1)
            ELSE r = d

\* The suggestion for web-blue-blue, with no name in use that is a prefix
\* of it, is web-blue: of two stacked suffixes the last is cut.
C17_Witness ==
    /\ guess.done
    /\ guess.deployment_name = <<"web", "-", "blue", "-", "blue">>
    /\ guess.existing_names = << <<"v">> >>
    /\ guess.result = <<"web", "-", "blue">>

\* ---------------------------------------------------------------- C18
\* C18: once every scope has exited (no request is in flight), os.environ
\* is the environment that held before the first scope was constructed,
\* and none of the three credential variables is set in it.
C18_QuiescentRestoration ==
    (\A t \in Threads : req[t].pc = "idle") =>
        /\ environ = [v \in {"AWS_PROFILE"} |-> "default"]
        /\ Ambient(environ) = [AccessKeyId     |-> None,
                               SecretAccessKey |-> None,
                               SessionToken    |-> None]

\* ---------------------------------------------------------------- C19
\* C19: when a status read for (c, s) returns, whatever registry route ran
\* while it was in flight has returned too, and the statuses cache holds
\* no fragment for (c, s) computed from a binding other than the one the
\* registry holds now: an entry under the pair's key is the cell of the
\* registry's present binding of s on c.
C19_NoStaleWriteBack ==
    [][\A t \in Threads :
          (Exited(t) /\ req[t].op = "status") =>
              LET c   == req[t].cluster_id
                  s   == req[t].arg
                  key == CacheKey(c, s)
              IN  key \in DOMAIN CACHE'.statuses =>
                      /\ BoundOn(services', c, s)
                      /\ CACHE'.statuses[key] =
                            StatusCell(c, s,
                                FindService(services', s).clusters[c])]_vars

\* ---------------------------------------------------------------- C20
\* The fragment is the status cell of the pair.
CellOf(fragment, cluster_id, ui_name) ==
    fragment.cluster_id = cluster_id /\ fragment.ui_name = ui_name

\* C20: two distinct (cluster id, service name) pairs never share a
\* statuses cache key.  A status read for a registered cluster and a
\* service bound on it that is answered from the cache is answered with
\* the cell of its own pair, and unmap-service for a bound pair leaves
\* every cached cell of another pair in the cache.
C20_KeysInjective ==
    [][\A c \in KeyClusterIds, s \in KeyUiNames :
          /\ \A t \in Threads :
                (/\ Begin(t, "status", c, s)
                 /\ req'[t].cached
                 /\ FindCluster(clusters, c) # NoCluster
                 /\ BoundOn(services, c, s))
                => CellOf(req'[t].resp, c, s)
          /\ (BoundOn(services, c, s) /\ unmap_service(c, s)) =>
                \A k \in DOMAIN CACHE.statuses :
                    ~CellOf(CACHE.statuses[k], c, s)
                    => k \in DOMAIN CACHE'.statuses]_vars

====
